---- MODULE Spec2Model ----
(***************************************************************************)
(* The gemelli tutorial notebooks as programs run by a Jupyter kernel.     *)
(*                                                                         *)
(* Each notebook is a list of code cells; each code cell is a list of      *)
(* statements.  The kernel runs one cell at a time, top to bottom, one     *)
(* statement after the other; a Python exception ends the cell and stops   *)
(* the run, a failing shell command (a line that starts with !) does not.  *)
(* The state is the kernel's namespace, its execution counter, the         *)
(* execution_count each cell carries in the notebook file, and the files   *)
(* and directories of the tutorial directory.                              *)
(*                                                                         *)
(* File names are sequences of path components; text cells of a .tsv file  *)
(* are strings, the empty string being a missing entry.                    *)
(***************************************************************************)
EXTENDS Naturals, Sequences, FiniteSets, TLC

VARIABLES
    nb,               \* the notebook that is open
    pc,               \* index of the next code cell to run (document order)
    halted,           \* a cell raised: the run has stopped
    counter,          \* the kernel's execution counter
    execution_count,  \* cell index -> the execution_count stored in the file
    ns,               \* the kernel namespace: variable name -> value
    dirs,             \* the directories that exist
    made,             \* the directories the notebook itself has created
    files,            \* path -> the file stored there
    calls,            \* the plugin actions called so far
    reads,            \* the files read so far
    attrs,            \* the attributes read from Results objects so far
    steps,            \* the kinds of step performed so far
    err,              \* the exception that stopped the run, if any
    plugins           \* the plugins installed in the framework

vars == <<nb, pc, halted, counter, execution_count, ns, dirs, made, files,
          calls, reads, attrs, steps, err, plugins>>

\* ------------------------------------------------------------------ bounds

\* the largest number of samples (rows) of a metadata.tsv that is enumerated
MaxSamples == 2

\* ------------------------------------------------------------- notebooks

Notebooks == {"IBD", "PhyloIBD", "PhyloRPCA", "TEMPTED"}

\* the tutorial directory of each notebook and the directory of its data
Root(n) ==
    CASE n = "IBD"       -> <<"IBD-2538">>
      [] n = "PhyloIBD"  -> <<"IBD-2538">>
      [] n = "PhyloRPCA" -> <<"qiime2-moving-pictures-tutorial">>
      [] n = "TEMPTED"   -> <<"ECAM-Qiita-10249">>

DataDir(n) ==
    IF n \in {"IBD", "PhyloIBD"} THEN Root(n) \o <<"data">> ELSE Root(n)

\* where the notebook keeps the CTF results and the file exported from Qurro
ResultsDir(n) ==
    IF n \in {"IBD", "PhyloIBD"} THEN Root(n) \o <<"ctf-results">> ELSE Root(n)

CoreMetricDir == <<"IBD-2538", "core-metric-output">>

\* the column names the pandas cells of a notebook use
KeyCol == "host_subject_id"

AggCols(n) ==
    IF n = "TEMPTED" THEN <<"delivery", "antiexposedall">>
                     ELSE <<"ibd", "active_disease">>

StateCol(n) == IF n = "TEMPTED" THEN "month" ELSE "timepoint"

GroupCol(n) == AggCols(n)[1]

RatioCol(n) ==
    IF n = "TEMPTED" THEN "Current_Log_Ratio" ELSE "Current_Natural_Log_Ratio"

\* ------------------------------------------------------------ statements

\* An expression in argument position: a variable, an attribute of a variable
\* (x.a), a view of an artifact as metadata (x.view(q2.Metadata), also of an
\* attribute: x.a.view(q2.Metadata)), a dataframe wrapped as metadata
\* (q2.Metadata(df)), or a literal parameter.
V(x)        == [form |-> "var",      var |-> x, attr |-> ""]
A(x, a)     == [form |-> "attr",     var |-> x, attr |-> a]
View(x)     == [form |-> "view",     var |-> x, attr |-> ""]
AView(x, a) == [form |-> "attrview", var |-> x, attr |-> a]
Meta(x)     == [form |-> "meta",     var |-> x, attr |-> ""]
Lit(s)      == [form |-> "lit",      var |-> s, attr |-> ""]

\* A statement: its operation, its line in the notebook file, and the operands
\* the operation uses.
S(op, line) ==
    [op |-> op, line |-> line, tgt |-> <<>>, fn |-> "", args |-> <<>>,
     attr |-> "", path |-> <<>>, dir |-> "", cols |-> <<>>,
     ins |-> <<>>, outs |-> <<>>]

\* import m / from m import f
Import(line) == S("import", line)
\* warnings.filterwarnings(...) / warnings.simplefilter(...)
Config(line) == S("config", line)
\* v = q2.Artifact.load(path)
Load(line, v, path) == [S("load", line) EXCEPT !.tgt = <<v>>, !.path = path]
\* v = q2.Metadata.load(path)
LoadMetadata(line, v, path) ==
    [S("load_metadata", line) EXCEPT !.tgt = <<v>>, !.path = path]
\* t1, ..., tk = fn(args)
Call(line, tgts, fn, args) ==
    [S("call", line) EXCEPT !.tgt = tgts, !.fn = fn, !.args = args]
\* v = fn(args).attr
CallAttr(line, v, fn, args, attr) ==
    [S("call", line) EXCEPT !.tgt = <<v>>, !.fn = fn, !.args = args,
                            !.attr = attr]
\* v = 'a/path'
Assign(line, v, path) == [S("assign", line) EXCEPT !.tgt = <<v>>, !.path = path]
\* os.mkdir(path)
Mkdir(line, path) == [S("mkdir", line) EXCEPT !.path = path]
\* v.visualization.save(path), or v.visualization.save(os.path.join(dir, path))
Save(line, v, dir, path) ==
    [S("save", line) EXCEPT !.args = <<A(v, "visualization")>>, !.dir = dir,
                            !.path = path]
\* a trailing expression, shown as the cell's output: v, or v.head(k)
Display(line, v) == [S("display", line) EXCEPT !.args = <<V(v)>>]
\* v = pd.read_csv(path, sep='\t', index_col=0), then [[cols]] when cols is given
ReadCsv(line, v, path, cols) ==
    [S("read_csv", line) EXCEPT !.tgt = <<v>>, !.path = path, !.cols = cols]
\* v = v.groupby(key).agg({c: 'first' for c in cols})
GroupByFirst(line, v, key, cols) ==
    [S("groupby_first", line) EXCEPT !.tgt = <<v>>, !.args = <<V(v)>>,
                                     !.attr = key, !.cols = cols]
\* v.index.name = name
SetIndexName(line, v, name) ==
    [S("index_name", line) EXCEPT !.tgt = <<v>>, !.args = <<V(v)>>, !.attr = name]
\* v.index = v.index.astype(str)
IndexAsStr(line, v) ==
    [S("index_astype_str", line) EXCEPT !.tgt = <<v>>, !.args = <<V(v)>>]
\* v.to_csv(path, sep='\t')
ToCsv(line, v, path) ==
    [S("to_csv", line) EXCEPT !.args = <<V(v)>>, !.path = path]
\* v = pd.concat([a, b], axis=1)
Concat(line, v, a, b) ==
    [S("concat", line) EXCEPT !.tgt = <<v>>, !.args = <<V(a), V(b)>>]
\* v = v.dropna(subset=[col])
DropNa(line, v, col) ==
    [S("dropna", line) EXCEPT !.tgt = <<v>>, !.args = <<V(v)>>, !.attr = col]
\* v = v[[cols]]
Select(line, v, cols) ==
    [S("select", line) EXCEPT !.tgt = <<v>>, !.args = <<V(v)>>, !.cols = cols]
\* v = x.a.view(...).to_dataframe() and the like: an artifact viewed as a frame
ToFrame(line, v, x, a) ==
    [S("to_frame", line) EXCEPT !.tgt = <<v>>, !.args = <<A(x, a)>>]
\* !cd dir
ShellCd(line, path) == [S("shell_cd", line) EXCEPT !.path = path]
\* !qiime <fn> --i-... ins --m-... ins --o-... outs
Cli(line, fn, ins, outs) ==
    [S("cli", line) EXCEPT !.fn = fn, !.ins = ins, !.outs = outs]

\* ------------------------------------------------- IBD-Tutorial-QIIME2-API

IBD_Cell1 ==
    <<Import(45), Import(46), Import(47), Config(49), Config(50),
      Load(53, "table", DataDir("IBD") \o <<"table.qza">>),
      Load(54, "rarefied_table", DataDir("IBD") \o <<"rarefied-table.qza">>),
      LoadMetadata(56, "metadata", DataDir("IBD") \o <<"metadata.tsv">>),
      Load(58, "tree", DataDir("IBD") \o <<"sepp-insertion-tree.qza">>),
      Load(60, "taxonomy", DataDir("IBD") \o <<"taxonomy.qza">>)>>

IBD_Cell2 == <<Import(77), Import(78), Import(79)>>

\* line 124, os.mkdir(output_path), is commented out in the notebook
IBD_Cell3 ==
    <<Call(111, <<"unweighted_unifrac_distance">>, "beta_phylogenetic",
           <<V("rarefied_table"), V("tree"), Lit("unweighted_unifrac")>>),
      Call(112, <<"weighted_unifrac_distance">>, "beta_phylogenetic",
           <<V("rarefied_table"), V("tree"), Lit("weighted_unifrac")>>),
      Call(114, <<"unweighted_unifrac_pcoa">>, "pcoa",
           <<A("unweighted_unifrac_distance", "distance_matrix")>>),
      Call(115, <<"weighted_unifrac_pcoa">>, "pcoa",
           <<A("weighted_unifrac_distance", "distance_matrix")>>),
      Call(117, <<"unweighted_unifrac_pcoa_plot">>, "plot",
           <<A("unweighted_unifrac_pcoa", "pcoa"), V("metadata")>>),
      Call(118, <<"weighted_unifrac_pcoa_plot">>, "plot",
           <<A("weighted_unifrac_pcoa", "pcoa"), V("metadata")>>),
      Call(120, <<"rpca_biplot", "rpca_distance">>, "rpca",
           <<V("table"), Lit("min_sample_count=5000")>>),
      Call(121, <<"rpca_biplot_emperor">>, "biplot",
           <<V("rpca_biplot"), V("metadata")>>),
      Assign(123, "output_path", CoreMetricDir),
      Save(126, "unweighted_unifrac_pcoa_plot", "output_path",
           <<"unweighted-unifrac-distance-pcoa.qzv">>),
      Save(127, "weighted_unifrac_pcoa_plot", "output_path",
           <<"weighted-unifrac-distance-pcoa.qzv">>),
      Save(128, "rpca_biplot_emperor", "output_path", <<"RPCA-biplot.qzv">>)>>

\* The cell of lines 195-227 with line 220 not commented out: the cell makes
\* the results directory.  Used to test that StepsOfTheListedKinds depends on
\* the statements of the cells.
IBD_Cell4_Mkdir ==
    <<Import(217),
      Mkdir(220, <<"IBD-2538", "ctf-results">>),
      Call(222, <<"ctf_results">>, "ctf",
           <<V("table"), V("metadata"), Lit("host_subject_id"),
             Lit("timepoint"), View("taxonomy")>>),
      Display(226, "ctf_results")>>

\* The cell of lines 195-227 with the rarefied table given to ctf.  Used to
\* test that NeverRarefiedIntoGemelli depends on the argument of line 222.
IBD_Cell4_Rarefied ==
    <<Import(217),
      Call(222, <<"ctf_results">>, "ctf",
           <<V("rarefied_table"), V("metadata"), Lit("host_subject_id"),
             Lit("timepoint"), View("taxonomy")>>),
      Display(226, "ctf_results")>>

\* line 220, os.mkdir('IBD-2538/ctf-results'), is commented out in the notebook
IBD_Cell4 ==
    <<Import(217),
      Call(222, <<"ctf_results">>, "ctf",
           <<V("table"), V("metadata"), Lit("host_subject_id"),
             Lit("timepoint"), View("taxonomy")>>),
      Display(226, "ctf_results")>>

\* The cell of lines 250-342 exporting the subject metadata with the name
\* subject-metadata.csv.  Used to test that OnlyArtifactsAndMetadata depends
\* on the names of the files the cells write.
IBD_Cell5_Csv ==
    <<Import(330), Import(331),
      ReadCsv(334, "mf", DataDir("IBD") \o <<"metadata.tsv">>, <<>>),
      GroupByFirst(337, "mf", "host_subject_id", <<"ibd", "active_disease">>),
      SetIndexName(339, "mf", "#SampleID"),
      ToCsv(340, "mf", DataDir("IBD") \o <<"subject-metadata.csv">>),
      Display(341, "mf")>>

IBD_Cell5 ==
    <<Import(330), Import(331),
      ReadCsv(334, "mf", DataDir("IBD") \o <<"metadata.tsv">>, <<>>),
      GroupByFirst(337, "mf", "host_subject_id", <<"ibd", "active_disease">>),
      SetIndexName(339, "mf", "#SampleID"),
      ToCsv(340, "mf", DataDir("IBD") \o <<"subject-metadata.tsv">>),
      Display(341, "mf")>>

IBD_Cell6 ==
    <<Call(359, <<"subject_biplot_emperor">>, "biplot",
           <<A("ctf_results", "subject_biplot"), Meta("mf"), View("taxonomy"),
             Lit("number_of_features=100")>>),
      Save(364, "subject_biplot_emperor", "",
           ResultsDir("IBD") \o <<"subject_biplot.qzv">>)>>

IBD_Cell7 ==
    <<Import(406),
      Call(409, <<"qurro_plot">>, "loading_plot",
           <<A("ctf_results", "subject_biplot"), V("table"), V("metadata"),
             View("taxonomy")>>),
      Save(413, "qurro_plot", "", ResultsDir("IBD") \o <<"qurro.qzv">>)>>

IBD_Cell8 ==
    <<Import(506),
      ReadCsv(509, "metadata_one", DataDir("IBD") \o <<"metadata.tsv">>, <<>>),
      ReadCsv(512, "metadata_two",
              ResultsDir("IBD") \o <<"sample_plot_data.tsv">>,
              <<"Current_Natural_Log_Ratio">>),
      Concat(515, "log_ratio_metdata", "metadata_two", "metadata_one"),
      DropNa(517, "log_ratio_metdata", "Current_Natural_Log_Ratio"),
      IndexAsStr(518, "log_ratio_metdata"),
      Select(520, "log_ratio_metdata",
             <<"timepoint", "host_subject_id", "ibd",
               "Current_Natural_Log_Ratio">>),
      SetIndexName(523, "log_ratio_metdata", "#SampleID"),
      ToCsv(524, "log_ratio_metdata",
            ResultsDir("IBD") \o <<"merged_sample_plot_data.tsv">>),
      Display(525, "log_ratio_metdata")>>

IBD_Cell9 ==
    <<Import(542),
      Call(545, <<"temporal_plot">>, "volatility",
           <<Meta("log_ratio_metdata"), Lit("timepoint"),
             Lit("individual_id_column=host_subject_id"),
             Lit("default_group_column=ibd"),
             Lit("default_metric=Current_Natural_Log_Ratio")>>),
      Save(550, "temporal_plot", "",
           ResultsDir("IBD") \o <<"log_ratio_plot.qzv">>)>>

IBD_Cell10 ==
    <<Call(582, <<"lme_plot">>, "linear_mixed_effects",
           <<Meta("log_ratio_metdata"), Lit("timepoint"),
             Lit("individual_id_column=host_subject_id"),
             Lit("group_columns=ibd"),
             Lit("metric=Current_Natural_Log_Ratio")>>),
      Save(587, "lme_plot", "", ResultsDir("IBD") \o <<"lme_log_ratio.qzv">>)>>

IBD_Cells ==
    <<IBD_Cell1, IBD_Cell2, IBD_Cell3, IBD_Cell4, IBD_Cell5, IBD_Cell6,
      IBD_Cell7, IBD_Cell8, IBD_Cell9, IBD_Cell10>>

\* the execution_count of each code cell, as stored in the notebook file
IBD_ExecutionCounts == <<3, 19, 20, 23, 7, 9, 22, 8, 14, 15>>

\* the outputs listed under "We will now cover the output files"
IBD_OutputList ==
    <<"subject_biplot", "state_biplot", "distance_matrix",
      "state_subject_ordination", "state_feature_ordination">>

\* --------------------------------------- Phylogenetic-IBD-Tutorial-QIIME2-API

PhyloIBD_Cell1 ==
    <<Import(45), Import(46), Import(47), Config(49), Config(50),
      Load(53, "table", DataDir("PhyloIBD") \o <<"table.qza">>),
      Load(54, "rarefied_table",
           DataDir("PhyloIBD") \o <<"rarefied-table.qza">>),
      LoadMetadata(56, "metadata", DataDir("PhyloIBD") \o <<"metadata.tsv">>),
      Load(58, "tree", DataDir("PhyloIBD") \o <<"sepp-insertion-tree.qza">>),
      Load(60, "taxonomy", DataDir("PhyloIBD") \o <<"taxonomy.qza">>)>>

\* The cell of lines 93-132 without line 125: the table reaches the action as
\* loaded.  Used to test that FilteredTableIntoPhyloCTF depends on line 125.
PhyloIBD_Cell2_Unfiltered ==
    <<Import(119), Import(120),
      Call(127, <<"ctf_results">>, "phylogenetic_ctf_with_taxonomy",
           <<V("table"), V("tree"), View("taxonomy"), V("metadata"),
             Lit("host_subject_id"), Lit("timepoint"),
             Lit("min_feature_frequency=10")>>),
      Display(131, "ctf_results")>>

\* line 123, os.mkdir('IBD-2538/ctf-results'), is commented out in the notebook
PhyloIBD_Cell2 ==
    <<Import(119), Import(120),
      CallAttr(125, "table", "filter_features", <<V("table"), V("tree")>>,
               "filtered_table"),
      Call(127, <<"ctf_results">>, "phylogenetic_ctf_with_taxonomy",
           <<V("table"), V("tree"), View("taxonomy"), V("metadata"),
             Lit("host_subject_id"), Lit("timepoint"),
             Lit("min_feature_frequency=10")>>),
      Display(131, "ctf_results")>>

PhyloIBD_Cell3 ==
    <<Import(239), Import(240), Import(241), Import(242), Import(243),
      ReadCsv(246, "mf", DataDir("PhyloIBD") \o <<"metadata.tsv">>, <<>>),
      GroupByFirst(249, "mf", "host_subject_id", <<"ibd", "active_disease">>),
      SetIndexName(251, "mf", "#SampleID"),
      ToCsv(252, "mf", DataDir("PhyloIBD") \o <<"subject-metadata.tsv">>),
      Display(253, "mf")>>

PhyloIBD_Cell4 ==
    <<ToFrame(368, "phylo_ctf_taxonomy", "ctf_results", "t2t_taxonomy"),
      ToFrame(369, "phylo_ctf_feature_loadings", "ctf_results",
              "subject_biplot"),
      Concat(373, "phylo_ctf_taxonomy_and_loadings", "phylo_ctf_taxonomy",
             "phylo_ctf_feature_loadings"),
      SetIndexName(374, "phylo_ctf_taxonomy_and_loadings", "featureid"),
      Display(375, "phylo_ctf_taxonomy_and_loadings")>>

PhyloIBD_Cell5 ==
    <<Import(395),
      Call(397, <<"joint_tree_biplot">>, "community_plot",
           <<A("ctf_results", "counts_by_node_tree"),
             A("ctf_results", "subject_table"), Meta("mf"),
             A("ctf_results", "subject_biplot"),
             Meta("phylo_ctf_taxonomy_and_loadings"),
             Lit("number_of_features=50")>>),
      Save(406, "joint_tree_biplot", "",
           ResultsDir("PhyloIBD") \o <<"empress.qzv">>)>>

\* The cell of lines 410-434 reading ctf_results.taxonomy, which is no output
\* of the action.  Used to test that DocumentedOutputsAreResultsOutputs
\* depends on the attributes the cells read.
PhyloIBD_Cell6_Taxonomy ==
    <<Import(426),
      Call(429, <<"qurro_plot">>, "loading_plot",
           <<A("ctf_results", "subject_biplot"),
             A("ctf_results", "counts_by_node"), V("metadata"),
             AView("ctf_results", "taxonomy")>>),
      Save(433, "qurro_plot", "", <<"IBD-2538", "ctf-results", "qurro.qzv">>)>>

PhyloIBD_Cell6 ==
    <<Import(426),
      Call(429, <<"qurro_plot">>, "loading_plot",
           <<A("ctf_results", "subject_biplot"),
             A("ctf_results", "counts_by_node"), V("metadata"),
             AView("ctf_results", "t2t_taxonomy")>>),
      Save(433, "qurro_plot", "", ResultsDir("PhyloIBD") \o <<"qurro.qzv">>)>>

PhyloIBD_Cell7 ==
    <<Import(536),
      ReadCsv(539, "metadata_one", DataDir("PhyloIBD") \o <<"metadata.tsv">>,
              <<>>),
      ReadCsv(542, "metadata_two",
              ResultsDir("PhyloIBD") \o <<"sample_plot_data.tsv">>,
              <<"Current_Natural_Log_Ratio">>),
      Concat(545, "log_ratio_metdata", "metadata_two", "metadata_one"),
      DropNa(547, "log_ratio_metdata", "Current_Natural_Log_Ratio"),
      IndexAsStr(548, "log_ratio_metdata"),
      Select(550, "log_ratio_metdata",
             <<"timepoint", "host_subject_id", "ibd",
               "Current_Natural_Log_Ratio">>),
      SetIndexName(553, "log_ratio_metdata", "#SampleID"),
      ToCsv(554, "log_ratio_metdata",
            ResultsDir("PhyloIBD") \o <<"merged_sample_plot_data.tsv">>),
      Display(555, "log_ratio_metdata")>>

PhyloIBD_Cell8 ==
    <<Import(583),
      Call(586, <<"temporal_plot">>, "volatility",
           <<Meta("log_ratio_metdata"), Lit("timepoint"),
             Lit("individual_id_column=host_subject_id"),
             Lit("default_group_column=ibd"),
             Lit("default_metric=Current_Natural_Log_Ratio")>>),
      Save(591, "temporal_plot", "",
           ResultsDir("PhyloIBD") \o <<"log_ratio_plot.qzv">>)>>

PhyloIBD_Cell9 ==
    <<Call(633, <<"lme_plot">>, "linear_mixed_effects",
           <<Meta("log_ratio_metdata"), Lit("timepoint"),
             Lit("individual_id_column=host_subject_id"),
             Lit("group_columns=ibd"),
             Lit("metric=Current_Natural_Log_Ratio")>>),
      Save(638, "lme_plot", "",
           ResultsDir("PhyloIBD") \o <<"lme_log_ratio.qzv">>)>>

PhyloIBD_Cells ==
    <<PhyloIBD_Cell1, PhyloIBD_Cell2, PhyloIBD_Cell3, PhyloIBD_Cell4,
      PhyloIBD_Cell5, PhyloIBD_Cell6, PhyloIBD_Cell7, PhyloIBD_Cell8,
      PhyloIBD_Cell9>>

PhyloIBD_ExecutionCounts == <<6, 7, 8, 9, 11, 8, 49, 51, 53>>

PhyloIBD_OutputList ==
    <<"subject_biplot", "state_biplot", "distance_matrix",
      "state_subject_ordination", "state_feature_ordination",
      "counts_by_node_tree", "counts_by_node", "t2t_taxonomy",
      "subject_table">>

\* ------------------ Phylogenetic-RPCA-moving-pictures (first notebook: RPCA)

MP(name) == Root("PhyloRPCA") \o <<name>>

PhyloRPCA_Cell1 == <<ShellCd(63, Root("PhyloRPCA"))>>

PhyloRPCA_Cell2 == <<Cli(92, "dev refresh-cache", <<>>, <<>>)>>

PhyloRPCA_Cell3 ==
    <<Cli(113, "gemelli phylogenetic-rpca-with-taxonomy",
          <<MP("table.qza"), MP("rooted-tree.qza"), MP("taxonomy.qza")>>,
          <<MP("phylo-ordination.qza"), MP("phylo-distance.qza"),
            MP("phylo-tree.qza"), MP("phylo-table.qza"),
            MP("phylo-taxonomy.qza")>>)>>

PhyloRPCA_Cell4 ==
    <<Cli(155, "empress community-plot",
          <<MP("phylo-tree.qza"), MP("phylo-table.qza"),
            MP("phylo-ordination.qza"), MP("sample-metadata.tsv"),
            MP("phylo-taxonomy.qza")>>,
          <<MP("phylo-empress.qzv")>>)>>

PhyloRPCA_Cell5 ==
    <<Cli(198, "diversity beta-group-significance",
          <<MP("phylo-distance.qza"), MP("sample-metadata.tsv")>>,
          <<MP("phylo-BodySite_significance.qzv")>>)>>

\* The cell of lines 241-260 reading the table as downloaded instead of
\* phylo-table.qza.  Used to test that FiveArtifactsFeedLaterCommands depends
\* on the inputs of the later commands.
PhyloRPCA_Cell6_RawTable ==
    <<Cli(254, "qurro loading-plot",
          <<MP("phylo-ordination.qza"), MP("table.qza"),
            MP("sample-metadata.tsv"), MP("phylo-taxonomy.qza")>>,
          <<MP("phylo-qurro_plot.qzv")>>)>>

PhyloRPCA_Cell6 ==
    <<Cli(254, "qurro loading-plot",
          <<MP("phylo-ordination.qza"), MP("phylo-table.qza"),
            MP("sample-metadata.tsv"), MP("phylo-taxonomy.qza")>>,
          <<MP("phylo-qurro_plot.qzv")>>)>>

PhyloRPCA_Cells ==
    <<PhyloRPCA_Cell1, PhyloRPCA_Cell2, PhyloRPCA_Cell3, PhyloRPCA_Cell4,
      PhyloRPCA_Cell5, PhyloRPCA_Cell6>>

PhyloRPCA_ExecutionCounts == <<1, 2, 8, 11, 9, 1>>

\* --------------- Phylogenetic-RPCA-moving-pictures (second notebook: TEMPTED)

EC(name) == Root("TEMPTED") \o <<name>>

TEMPTED_Cell1 ==
    <<Import(329), Import(330), Import(331), Config(333), Config(334),
      Load(337, "table", EC("table.qza")),
      LoadMetadata(339, "metadata", EC("metadata.tsv")),
      Load(341, "tree", EC("insertion-tree.qza")),
      Load(343, "taxonomy", EC("taxonomy.qza"))>>

TEMPTED_Cell2 ==
    <<Import(418),
      CallAttr(420, "table_transformed", "clr_transformation", <<V("table")>>,
               "clr_table"),
      Call(421, <<"tempted_res">>, "tempted_factorize",
           <<V("table_transformed"), V("metadata"), Lit("host_subject_id"),
             Lit("month")>>),
      Display(425, "tempted_res")>>

TEMPTED_Cell3 ==
    <<Import(524), Import(525),
      ReadCsv(528, "mf", EC("metadata.tsv"), <<>>),
      GroupByFirst(531, "mf", "host_subject_id",
                   <<"delivery", "antiexposedall">>),
      SetIndexName(533, "mf", "#SampleID"),
      IndexAsStr(534, "mf"),
      ToCsv(535, "mf", EC("subject-metadata.tsv")),
      Display(536, "mf")>>

TEMPTED_Cell4 ==
    <<Import(563),
      Call(566, <<"individual_biplot_emperor">>, "biplot",
           <<A("tempted_res", "individual_biplot"), Meta("mf"),
             View("taxonomy"), Lit("number_of_features=15")>>),
      Save(570, "individual_biplot_emperor", "", EC("subject_biplot.qzv"))>>

TEMPTED_Cell5 ==
    <<Import(611),
      Call(614, <<"qurro_plot">>, "loading_plot",
           <<A("tempted_res", "individual_biplot"), V("table"), V("metadata"),
             View("taxonomy")>>),
      Save(618, "qurro_plot", "", EC("qurro.qzv"))>>

TEMPTED_Cell6 ==
    <<Import(706),
      ReadCsv(709, "metadata_one", EC("metadata.tsv"), <<>>),
      ReadCsv(712, "metadata_two", EC("sample_plot_data.tsv"),
              <<"Current_Log_Ratio">>),
      Concat(715, "log_ratio_metdata", "metadata_two", "metadata_one"),
      DropNa(717, "log_ratio_metdata", "Current_Log_Ratio"),
      IndexAsStr(718, "log_ratio_metdata"),
      Select(720, "log_ratio_metdata",
             <<"month", "host_subject_id", "delivery", "Current_Log_Ratio">>),
      SetIndexName(723, "log_ratio_metdata", "#SampleID"),
      ToCsv(724, "log_ratio_metdata", EC("merged_sample_plot_data.tsv")),
      Display(725, "log_ratio_metdata")>>

TEMPTED_Cell7 ==
    <<Import(752),
      Call(755, <<"temporal_plot">>, "volatility",
           <<Meta("log_ratio_metdata"), Lit("month"),
             Lit("individual_id_column=host_subject_id"),
             Lit("default_group_column=delivery"),
             Lit("default_metric=Current_Log_Ratio")>>),
      Save(760, "temporal_plot", "", EC("log_ratio_plot.qzv"))>>

TEMPTED_Cell8 ==
    <<Call(801, <<"lme_plot">>, "linear_mixed_effects",
           <<Meta("log_ratio_metdata"), Lit("month"),
             Lit("individual_id_column=host_subject_id"),
             Lit("group_columns=delivery"), Lit("metric=Current_Log_Ratio")>>),
      Save(806, "lme_plot", "", EC("lme_log_ratio.qzv"))>>

TEMPTED_Cells ==
    <<TEMPTED_Cell1, TEMPTED_Cell2, TEMPTED_Cell3, TEMPTED_Cell4,
      TEMPTED_Cell5, TEMPTED_Cell6, TEMPTED_Cell7, TEMPTED_Cell8>>

TEMPTED_ExecutionCounts == <<1, 7, 8, 9, 10, 11, 12, 13>>

TEMPTED_OutputList ==
    <<"individual_biplot", "state_loadings", "distance_matrix", "svd_center">>

\* ------------------------------------------------------- notebook tables

Cells(n) ==
    CASE n = "IBD"       -> IBD_Cells
      [] n = "PhyloIBD"  -> PhyloIBD_Cells
      [] n = "PhyloRPCA" -> PhyloRPCA_Cells
      [] n = "TEMPTED"   -> TEMPTED_Cells

ExecutionCounts(n) ==
    CASE n = "IBD"       -> IBD_ExecutionCounts
      [] n = "PhyloIBD"  -> PhyloIBD_ExecutionCounts
      [] n = "PhyloRPCA" -> PhyloRPCA_ExecutionCounts
      [] n = "TEMPTED"   -> TEMPTED_ExecutionCounts

OutputList(n) ==
    CASE n = "IBD"       -> IBD_OutputList
      [] n = "PhyloIBD"  -> PhyloIBD_OutputList
      [] n = "PhyloRPCA" -> <<>>
      [] n = "TEMPTED"   -> TEMPTED_OutputList

\* The warnings in the recorded outputs (the stderr streams): the cell, the
\* line of the output, the category, and the file that emitted the warning,
\* from the environment's library directory on.
RecordedWarnings(n) ==
    CASE n = "IBD" ->
           {[cell |-> 3, line |-> 91, category |-> "RuntimeWarning",
             file |-> <<"site-packages", "skbio", "stats", "ordination",
                        "_principal_coordinate_analysis.py">>],
            [cell |-> 3, line |-> 93, category |-> "RuntimeWarning",
             file |-> <<"site-packages", "skbio", "stats", "ordination",
                        "_principal_coordinate_analysis.py">>],
            [cell |-> 10, line |-> 575, category |-> "UserWarning",
             file |-> <<"site-packages", "q2_longitudinal",
                        "_longitudinal.py">>]}
      [] n = "PhyloIBD" ->
           {[cell |-> 9, line |-> 616, category |-> "UserWarning",
             file |-> <<"site-packages", "q2_longitudinal",
                        "_longitudinal.py">>]}
      [] n = "PhyloRPCA" -> {}
      [] n = "TEMPTED" ->
           {[cell |-> 8, line |-> 784, category |-> "UserWarning",
             file |-> <<"site-packages", "q2_longitudinal",
                        "_longitudinal.py">>]}

\* ----------------------------------------------------------------- values

\* pandas' missing value; read_csv reads an empty field as NaN and to_csv
\* writes NaN as an empty field
NaN == "NaN"

NoFrame == [iname |-> "", idx |-> <<>>, cols |-> <<>>, val |-> <<>>]

NoTsv == [header |-> <<>>, rows |-> <<>>]

\* A value of the namespace.  kind is one of "unbound", "artifact", "results",
\* "metadata", "frame", "str"; by is the action (or "load") that made it and
\* out the output of that action it is; roots are the files it derives from;
\* ids are the feature ids of a table or the tips of a tree.
Value(kind, by, out, roots, ids) ==
    [kind |-> kind, by |-> by, out |-> out, roots |-> roots, ids |-> ids,
     path |-> <<>>, frame |-> NoFrame]

Unbound == Value("unbound", "", "", {}, {})

FrameValue(f, roots) == [Value("frame", "pandas", "", roots, {}) EXCEPT !.frame = f]

StrValue(p) == [Value("str", "", "", {}, {}) EXCEPT !.path = p]

\* the variable names the notebooks assign
VarNames ==
    UNION {{s.tgt[k] : k \in DOMAIN s.tgt} :
           s \in UNION {{c[i] : i \in DOMAIN c} :
                        c \in UNION {{Cells(n)[j] : j \in DOMAIN Cells(n)} :
                                     n \in Notebooks}}}

\* ------------------------------------------------------------ plugin actions

\* The outputs of each action, in the order of its Results object.  For ctf,
\* phylogenetic_ctf_with_taxonomy and tempted_factorize this is the Results
\* object printed under the cell that calls the action; for the other actions
\* it is the attributes (or the unpacking) the cells use.
ActionOutputs(fn) ==
    CASE fn = "ctf" ->
           <<"subject_biplot", "state_biplot", "distance_matrix",
             "state_subject_ordination", "state_feature_ordination">>
      [] fn = "phylogenetic_ctf_with_taxonomy" ->
           <<"subject_biplot", "state_biplot", "distance_matrix",
             "state_subject_ordination", "state_feature_ordination",
             "counts_by_node_tree", "counts_by_node", "t2t_taxonomy",
             "subject_table">>
      [] fn = "tempted_factorize" ->
           <<"individual_biplot", "state_loadings", "distance_matrix",
             "svd_center">>
      [] fn = "rpca" -> <<"biplot", "distance_matrix">>
      [] fn = "beta_phylogenetic" -> <<"distance_matrix">>
      [] fn = "pcoa" -> <<"pcoa">>
      [] fn = "filter_features" -> <<"filtered_table">>
      [] fn = "clr_transformation" -> <<"clr_table">>
      [] OTHER -> <<"visualization">>

\* the plugin of a command of the qiime command line: its first word
CliPlugin(fn) ==
    CASE fn = "gemelli phylogenetic-rpca-with-taxonomy" -> "gemelli"
      [] fn = "empress community-plot" -> "empress"
      [] fn = "diversity beta-group-significance" -> "diversity"
      [] fn = "qurro loading-plot" -> "qurro"
      [] OTHER -> "dev"

\* the plugins the notebooks use
Plugins == {"dev", "diversity", "gemelli", "empress", "qurro"}

\* The installations a run can meet.  The command-line notebook assumes the
\* framework and gemelli installed; empress and qurro are installed apart and
\* one of them may be missing.  The notebooks of the Python API import their
\* plugins in their first cells.
Installations(n) ==
    IF n = "PhyloRPCA"
    THEN {Plugins, Plugins \ {"empress"}, Plugins \ {"qurro"}}
    ELSE {Plugins}

\* the actions of the gemelli plugin that the notebooks call
GemelliActions ==
    {"rpca", "ctf", "phylogenetic_ctf_with_taxonomy", "clr_transformation",
     "tempted_factorize", "gemelli phylogenetic-rpca-with-taxonomy"}

Range(s) == {s[i] : i \in DOMAIN s}

\* filter_features(table, tree): "first ensure all the table features are in
\* the tree": the features of the table that are tips of the tree
FilterFeatures(table, tree) == table \cap tree

\* the feature ids of the result of fn on the argument values argv
ResultIds(fn, argv) ==
    IF Len(argv) = 0 THEN {}
    ELSE IF fn = "filter_features" /\ Len(argv) >= 2
         THEN FilterFeatures(argv[1].ids, argv[2].ids)
         ELSE argv[1].ids

\* ------------------------------------------------------------------ pandas

RECURSIVE Asc(_)
\* the numbers of a finite set, in increasing order
Asc(P) ==
    IF P = {} THEN <<>>
    ELSE LET m == CHOOSE x \in P : \A y \in P : x <= y
         IN  <<m>> \o Asc(P \ {m})

\* the entries of s at the positions P, in the order of s
AtPositions(s, P) == LET ps == Asc(P) IN [k \in 1..Len(ps) |-> s[ps[k]]]

\* the positions of the columns of frame f that are named c
ColPositions(f, c) == {j \in 1..Len(f.cols) : f.cols[j] = c}

\* the position of the first entry of s that equals x, 0 when there is none
FirstIndex(s, x) ==
    IF \E i \in 1..Len(s) : s[i] = x
    THEN CHOOSE i \in 1..Len(s) : s[i] = x /\ \A k \in 1..(i - 1) : s[k] # x
    ELSE 0

HasDuplicates(s) == \E i, k \in 1..Len(s) : i # k /\ s[i] = s[k]

\* the strings read_csv takes for a missing value (its default na_values) that
\* occur in the files enumerated here
NaStrings == {"", "NaN"}

ReadCell(t) == IF t \in NaStrings THEN NaN ELSE t

WriteCell(v) == IF v = NaN THEN "" ELSE v

\* pd.read_csv(path, sep='\t', index_col=0): the first column is the index
ReadCsvFrame(tsv) ==
    [iname |-> tsv.header[1],
     idx   |-> [i \in 1..Len(tsv.rows) |-> ReadCell(tsv.rows[i][1])],
     cols  |-> Tail(tsv.header),
     val   |-> [i \in 1..Len(tsv.rows) |->
                  [j \in 1..(Len(tsv.header) - 1) |->
                     ReadCell(tsv.rows[i][j + 1])]]]

\* df.to_csv(path, sep='\t'): the index is written as the first column
ToCsvText(f) ==
    [header |-> <<f.iname>> \o f.cols,
     rows   |-> [i \in 1..Len(f.idx) |->
                   <<WriteCell(f.idx[i])>> \o
                   [j \in 1..Len(f.cols) |-> WriteCell(f.val[i][j])]]]

RECURSIVE SelectPositions(_, _)
\* df[[c1, ..., ck]] on the column positions: for each name in turn, every
\* column that carries the name
SelectPositions(f, cs) ==
    IF cs = <<>> THEN <<>>
    ELSE Asc(ColPositions(f, Head(cs))) \o SelectPositions(f, Tail(cs))

\* df[[c1, ..., ck]]
SelectCols(f, cs) ==
    LET ps == SelectPositions(f, cs)
    IN  [f EXCEPT !.cols = [k \in 1..Len(ps) |-> f.cols[ps[k]]],
                  !.val  = [i \in 1..Len(f.idx) |->
                              [k \in 1..Len(ps) |-> f.val[i][ps[k]]]]]

\* the order pandas sorts the group keys in: the host_subject_id strings of
\* the enumerated files, in increasing (lexicographic) order
KeyOrder == <<"1.0", "2.0", "s1000100", "s1000200">>

KeyRank(k) == FirstIndex(KeyOrder, k)

RECURSIVE SortKeys(_)
SortKeys(K) ==
    IF K = {} THEN <<>>
    ELSE LET m == CHOOSE x \in K : \A y \in K : KeyRank(x) <= KeyRank(y)
         IN  <<m>> \o SortKeys(K \ {m})

\* The entry of the first row of the group, missing or not (what nth(0) or
\* iloc[0] would give).  Used to test that SubjectMetadataFirstPresent depends
\* on 'first' skipping missing entries.
FirstRowOfGroup(f, rows, j) ==
    f.val[CHOOSE i \in rows : \A k \in rows : i <= k][j]

\* GroupBy 'first' of one column for one group: the first entry of the group,
\* in row order, that is not missing; NaN when every entry is missing
FirstOfGroup(f, rows, j) ==
    LET present == {i \in rows : f.val[i][j] # NaN}
    IN  IF present = {} THEN NaN
        ELSE f.val[CHOOSE i \in present : \A k \in present : i <= k][j]

\* df.groupby(key).agg({c: 'first' for c in cs}): rows whose key is missing
\* belong to no group; the groups come sorted by key
GroupByAggFirst(f, key, cs) ==
    LET kp   == CHOOSE j \in ColPositions(f, key) : TRUE
        keys == SortKeys({f.val[i][kp] : i \in 1..Len(f.idx)} \ {NaN})
        rowsOf(k) == {i \in 1..Len(f.idx) : f.val[i][kp] = k}
        cp(c) == CHOOSE j \in ColPositions(f, c) : TRUE
    IN  [iname |-> key,
         idx   |-> keys,
         cols  |-> cs,
         val   |-> [g \in 1..Len(keys) |->
                      [c \in 1..Len(cs) |->
                         FirstOfGroup(f, rowsOf(keys[g]), cp(cs[c]))]]]

\* one frame's part of a row of pd.concat(..., axis=1): the frame's row with
\* index id, or missing values when the frame has no such row
AlignedRow(f, id) ==
    LET i == FirstIndex(f.idx, id)
    IN  IF i = 0 THEN [j \in 1..Len(f.cols) |-> NaN] ELSE f.val[i]

\* pd.concat([a, b], axis=1): an outer join on the index; the columns of a,
\* then the columns of b
ConcatColumns(a, b) ==
    LET extra == AtPositions(b.idx, {i \in 1..Len(b.idx) :
                                       FirstIndex(a.idx, b.idx[i]) = 0})
        index == a.idx \o extra
    IN  [iname |-> IF a.iname = b.iname THEN a.iname ELSE "",
         idx   |-> index,
         cols  |-> a.cols \o b.cols,
         val   |-> [i \in 1..Len(index) |->
                      AlignedRow(a, index[i]) \o AlignedRow(b, index[i])]]

\* df.dropna(subset=[c]): the rows in which no column named c is missing
DropNaSubset(f, c) ==
    LET keep == {i \in 1..Len(f.idx) :
                   \A j \in ColPositions(f, c) : f.val[i][j] # NaN}
    IN  [f EXCEPT !.idx = AtPositions(f.idx, keep),
                  !.val = AtPositions(f.val, keep)]

\* df.index.astype(str): a missing index entry becomes the string 'nan'
IndexAsString(f) ==
    [f EXCEPT !.idx = [i \in 1..Len(f.idx) |->
                         IF f.idx[i] = NaN THEN "nan" ELSE f.idx[i]]]

\* ------------------------------------------------------------- expressions

NoError == [type |-> "", cell |-> 0, line |-> 0]

\* the headers q2.Metadata accepts for the index of a dataframe, among those
\* the notebooks set
IdHeaders == {"#SampleID", "featureid"}

\* q2.Metadata(df) raises on a frame without ids, with repeated ids, with
\* repeated column names or with an index name that is no id header
InvalidMetadata(f) ==
    \/ Len(f.idx) = 0
    \/ HasDuplicates(f.idx)
    \/ HasDuplicates(f.cols)
    \/ f.iname \notin IdHeaders

Lookup(n, x) == IF x \in DOMAIN n THEN n[x] ELSE Unbound

\* The value of expression e in namespace n, or the exception it raises.
EvalExpr(e, n) ==
    LET x == Lookup(n, e.var)
        ok(v) == [e |-> "", v |-> v]
        raise(t) == [e |-> t, v |-> Unbound]
    IN  CASE e.form = "lit" -> ok(StrValue(<<e.var>>))
          [] x.kind = "unbound" -> raise("NameError")
          [] e.form = "var" -> ok(x)
          [] e.form = "attr" ->
               IF x.kind = "results" /\ e.attr \in Range(ActionOutputs(x.by))
               THEN ok(Value("artifact", x.by, e.attr, x.roots, x.ids))
               ELSE raise("AttributeError")
          [] e.form = "attrview" ->
               IF x.kind = "results" /\ e.attr \in Range(ActionOutputs(x.by))
               THEN ok(Value("metadata", x.by, e.attr, x.roots, x.ids))
               ELSE raise("AttributeError")
          [] e.form = "view" ->
               IF x.kind = "artifact"
               THEN ok(Value("metadata", x.by, x.out, x.roots, x.ids))
               ELSE raise("AttributeError")
          [] e.form = "meta" ->
               IF x.kind # "frame" THEN raise("TypeError")
               ELSE IF InvalidMetadata(x.frame) THEN raise("ValueError")
               ELSE ok([Value("metadata", "Metadata", "", x.roots, {})
                          EXCEPT !.frame = x.frame])

\* the arguments of a call, evaluated left to right
EvalArgs(args, n) == [k \in 1..Len(args) |-> EvalExpr(args[k], n)]

\* the position of the first argument that raises, 0 when none does
FirstRaise(evs) ==
    IF \E k \in 1..Len(evs) : evs[k].e # ""
    THEN CHOOSE k \in 1..Len(evs) :
           evs[k].e # "" /\ \A i \in 1..(k - 1) : evs[i].e = ""
    ELSE 0

\* the attributes of Results objects that evaluating args reads, up to the
\* first argument that raises
AttrReads(c, s, n) ==
    LET evs  == EvalArgs(s.args, n)
        stop == IF FirstRaise(evs) = 0 THEN Len(evs) ELSE FirstRaise(evs)
    IN  {[cell |-> c, line |-> s.line, var |-> s.args[k].var,
          by |-> Lookup(n, s.args[k].var).by, attr |-> s.args[k].attr] :
         k \in {i \in 1..stop :
                  /\ s.args[i].form \in {"attr", "attrview"}
                  /\ Lookup(n, s.args[i].var).kind = "results"}}

\* ---------------------------------------------------------------- steps

\* the kind of step a statement is
StepKind(s) ==
    CASE s.op \in {"load", "load_metadata", "read_csv"} -> "load"
      [] s.op = "call" -> "action"
      [] s.op = "cli" ->
           IF s.fn = "dev refresh-cache" THEN "framework" ELSE "action"
      [] s.op \in {"groupby_first", "index_name", "index_astype_str",
                   "concat", "dropna", "select", "to_frame"} -> "frame"
      [] s.op = "display" -> "display"
      [] s.op = "save" -> "save"
      [] s.op = "to_csv" -> "export"
      [] s.op = "shell_cd" -> "shell"
      [] s.op = "mkdir" -> "mkdir"
      [] s.op = "import" -> "import"
      [] s.op = "config" -> "configure"
      [] s.op = "assign" -> "assign"

Parent(p) == SubSeq(p, 1, Len(p) - 1)

\* the file name of a path: its last component
Name(p) == p[Len(p)]

\* The extension of a file name, the text after its last dot, for the file
\* names that the cells give; "" for any other name.
Extension(name) ==
    CASE name \in {"table.qza", "rarefied-table.qza", "taxonomy.qza",
                   "sepp-insertion-tree.qza", "insertion-tree.qza",
                   "rooted-tree.qza", "phylo-ordination.qza",
                   "phylo-distance.qza", "phylo-tree.qza", "phylo-table.qza",
                   "phylo-taxonomy.qza"} -> "qza"
      [] name \in {"unweighted-unifrac-distance-pcoa.qzv",
                   "weighted-unifrac-distance-pcoa.qzv", "RPCA-biplot.qzv",
                   "subject_biplot.qzv", "qurro.qzv", "empress.qzv",
                   "log_ratio_plot.qzv", "lme_log_ratio.qzv",
                   "phylo-empress.qzv", "phylo-BodySite_significance.qzv",
                   "phylo-qurro_plot.qzv"} -> "qzv"
      [] name \in {"metadata.tsv", "sample-metadata.tsv",
                   "subject-metadata.tsv", "sample_plot_data.tsv",
                   "merged_sample_plot_data.tsv"} -> "tsv"
      [] OTHER -> ""

Download == [cell |-> 0, line |-> 0]

File(writer, kind, ids, roots, tsv) ==
    [writer |-> writer, kind |-> kind, ids |-> ids, roots |-> roots,
     tsv |-> tsv]

\* ------------------------------------------------------------ interpreter

\* The machine a statement acts on is the record of the state variables that a
\* cell can change.
Raise(m, t, c, s) == [m EXCEPT !.err = [type |-> t, cell |-> c, line |-> s.line]]

Bind(m, v, val) == [m EXCEPT !.ns = [m.ns EXCEPT ![v] = val]]

\* the value an artifact file loads as: it derives from the file itself and
\* from what the file was made from
Loaded(m, p) ==
    Value("artifact", "load", "", m.files[p].roots \cup {p}, m.files[p].ids)

LogRead(m, c, s, p) ==
    [m EXCEPT !.reads = @ \cup {[cell |-> c, line |-> s.line, path |-> p,
                                 writer |-> m.files[p].writer]}]

\* v = q2.Artifact.load(path); v = q2.Metadata.load(path)
ExecLoad(m, s, c) ==
    IF s.path \notin DOMAIN m.files THEN Raise(m, "FileNotFoundError", c, s)
    ELSE LET v == IF s.op = "load" THEN Loaded(m, s.path)
                  ELSE [Value("metadata", "load", "", {s.path}, {})
                          EXCEPT !.frame = ReadCsvFrame(m.files[s.path].tsv)]
         IN  Bind(LogRead(m, c, s, s.path), s.tgt[1], v)

\* t1, ..., tk = fn(args)[.attr]: a call of a plugin action through the
\* Python API.  The Results object has the outputs of the action; a single
\* target takes the Results object (or its attribute attr), several targets
\* unpack the outputs in order.
ExecCall(m, s, c) ==
    LET evs  == EvalArgs(s.args, m.ns)
        bad  == FirstRaise(evs)
        m1   == [m EXCEPT !.attrs = @ \cup AttrReads(c, s, m.ns)]
        argv == [k \in 1..Len(evs) |-> evs[k].v]
        outs == ActionOutputs(s.fn)
        roots == UNION {argv[k].roots : k \in 1..Len(argv)}
        ids  == ResultIds(s.fn, argv)
        m2   == [m1 EXCEPT !.calls = @ \cup {[cell |-> c, line |-> s.line,
                                              fn |-> s.fn, args |-> argv]}]
        res  == Value("results", s.fn, "", roots, ids)
        art(o) == Value("artifact", s.fn, o, roots, ids)
    IN  IF bad # 0 THEN Raise(m1, evs[bad].e, c, s)
        ELSE IF s.attr # ""
        THEN LET m3 == [m2 EXCEPT !.attrs = @ \cup
                          {[cell |-> c, line |-> s.line, var |-> "",
                            by |-> s.fn, attr |-> s.attr]}]
             IN  IF s.attr \in Range(outs)
                 THEN Bind(m3, s.tgt[1], art(s.attr))
                 ELSE Raise(m3, "AttributeError", c, s)
        ELSE IF Len(s.tgt) = 1 THEN Bind(m2, s.tgt[1], res)
        ELSE IF Len(s.tgt) # Len(outs) THEN Raise(m2, "ValueError", c, s)
        ELSE [m2 EXCEPT !.ns =
                [v \in DOMAIN m2.ns |->
                   IF v \in Range(s.tgt)
                   THEN art(outs[FirstIndex(s.tgt, v)])
                   ELSE m2.ns[v]]]

\* os.mkdir(path)
ExecMkdir(m, s, c) ==
    IF s.path \in m.dirs THEN Raise(m, "FileExistsError", c, s)
    ELSE IF Parent(s.path) \notin m.dirs
    THEN Raise(m, "FileNotFoundError", c, s)
    ELSE [m EXCEPT !.dirs = @ \cup {s.path}, !.made = @ \cup {s.path}]

\* writing a file creates no directory: the directory must exist
WriteFile(m, s, c, p, f) ==
    IF Parent(p) \notin m.dirs THEN Raise(m, "FileNotFoundError", c, s)
    ELSE [m EXCEPT !.files = (p :> f) @@ @]

\* v.visualization.save(path) and v.visualization.save(os.path.join(dir, path))
ExecSave(m, s, c) ==
    LET evs == EvalArgs(s.args, m.ns)
        m1  == [m EXCEPT !.attrs = @ \cup AttrReads(c, s, m.ns)]
        d   == Lookup(m.ns, s.dir)
        p   == IF s.dir = "" THEN s.path ELSE d.path \o s.path
    IN  IF evs[1].e # "" THEN Raise(m1, evs[1].e, c, s)
        ELSE IF s.dir # "" /\ d.kind = "unbound" THEN Raise(m1, "NameError", c, s)
        ELSE WriteFile(m1, s, c, p,
                       File([cell |-> c, line |-> s.line], "qzv", {},
                            evs[1].v.roots, NoTsv))

\* the pandas statements of the notebooks
ExecFrame(m, s, c) ==
    LET x == Lookup(m.ns, s.args[1].var)
        f == x.frame
        missing(cs) == \E k \in 1..Len(cs) : ColPositions(f, cs[k]) = {}
        set(g) == Bind(m, s.tgt[1], FrameValue(g, x.roots))
    IN  CASE x.kind = "unbound" -> Raise(m, "NameError", c, s)
          [] x.kind # "frame" -> Raise(m, "AttributeError", c, s)
          [] s.op = "groupby_first" ->
               IF missing(<<s.attr>> \o s.cols) THEN Raise(m, "KeyError", c, s)
               ELSE set(GroupByAggFirst(f, s.attr, s.cols))
          [] s.op = "index_name" -> set([f EXCEPT !.iname = s.attr])
          [] s.op = "index_astype_str" -> set(IndexAsString(f))
          [] s.op = "dropna" ->
               IF missing(<<s.attr>>) THEN Raise(m, "KeyError", c, s)
               ELSE set(DropNaSubset(f, s.attr))
          [] s.op = "select" ->
               IF missing(s.cols) THEN Raise(m, "KeyError", c, s)
               ELSE set(SelectCols(f, s.cols))
          [] s.op = "concat" ->
               LET y == Lookup(m.ns, s.args[2].var)
                   g == y.frame
               IN  IF y.kind = "unbound" THEN Raise(m, "NameError", c, s)
                   ELSE IF y.kind # "frame" THEN Raise(m, "TypeError", c, s)
                   ELSE IF /\ HasDuplicates(f.idx) \/ HasDuplicates(g.idx)
                           /\ f.idx # g.idx
                   THEN Raise(m, "InvalidIndexError", c, s)
                   ELSE Bind(m, s.tgt[1],
                             FrameValue(ConcatColumns(f, g),
                                        x.roots \cup y.roots))
          [] s.op = "to_csv" ->
               WriteFile(m, s, c, s.path,
                         File([cell |-> c, line |-> s.line], "tsv", {},
                              x.roots, ToCsvText(f)))

\* v = pd.read_csv(path, sep='\t', index_col=0)[[cols]]
ExecReadCsv(m, s, c) ==
    IF s.path \notin DOMAIN m.files THEN Raise(m, "FileNotFoundError", c, s)
    ELSE LET f  == ReadCsvFrame(m.files[s.path].tsv)
             m1 == LogRead(m, c, s, s.path)
         IN  IF s.cols = <<>> THEN Bind(m1, s.tgt[1], FrameValue(f, {s.path}))
             ELSE IF \E k \in 1..Len(s.cols) : ColPositions(f, s.cols[k]) = {}
             THEN Raise(m1, "KeyError", c, s)
             ELSE Bind(m1, s.tgt[1], FrameValue(SelectCols(f, s.cols), {s.path}))

\* v = x.a.view(...).to_dataframe(): the rows are the plugin's; one row stands
\* for them
ExecToFrame(m, s, c) ==
    LET evs == EvalArgs(s.args, m.ns)
        m1  == [m EXCEPT !.attrs = @ \cup AttrReads(c, s, m.ns)]
        f   == [iname |-> "id", idx |-> <<"feature">>,
                cols |-> <<s.args[1].attr>>, val |-> <<<<s.args[1].attr>>>>]
    IN  IF evs[1].e # "" THEN Raise(m1, evs[1].e, c, s)
        ELSE Bind(m1, s.tgt[1], FrameValue(f, evs[1].v.roots))

RECURSIVE LogReads(_, _, _, _)
LogReads(m, c, s, ps) ==
    IF ps = <<>> THEN m ELSE LogReads(LogRead(m, c, s, Head(ps)), c, s, Tail(ps))

\* !qiime <plugin> <action> ...: the command fails, writing nothing, when
\* the plugin is not installed, an input file is missing or the directory of
\* an output does not exist; a failing shell line raises no Python exception
ExecCli(m, s, c) ==
    LET installed == CliPlugin(s.fn) \in m.plugins
        present == \A k \in 1..Len(s.ins) : s.ins[k] \in DOMAIN m.files
        canWrite == \A k \in 1..Len(s.outs) : Parent(s.outs[k]) \in m.dirs
        argv  == [k \in 1..Len(s.ins) |-> Loaded(m, s.ins[k])]
        roots == UNION {argv[k].roots : k \in 1..Len(argv)}
        ids   == IF Len(argv) = 0 THEN {} ELSE argv[1].ids
        m1    == LogReads(m, c, s, s.ins)
        m2    == [m1 EXCEPT !.calls = @ \cup {[cell |-> c, line |-> s.line,
                                               fn |-> s.fn, args |-> argv]}]
        new   == [p \in Range(s.outs) |->
                    File([cell |-> c, line |-> s.line], Extension(Name(p)),
                         ids, roots, NoTsv)]
    IN  IF s.fn = "dev refresh-cache" THEN m
        ELSE IF ~installed \/ ~present \/ ~canWrite THEN m
        ELSE [m2 EXCEPT !.files = new @@ @]

\* One statement.  The step is recorded, then the statement acts.
Exec(m, s, c) ==
    LET m0 == [m EXCEPT !.steps = @ \cup {[cell |-> c, line |-> s.line,
                                           kind |-> StepKind(s)]}]
    IN  CASE s.op \in {"import", "config", "shell_cd"} -> m0
          [] s.op \in {"load", "load_metadata"} -> ExecLoad(m0, s, c)
          [] s.op = "call" -> ExecCall(m0, s, c)
          [] s.op = "assign" -> Bind(m0, s.tgt[1], StrValue(s.path))
          [] s.op = "mkdir" -> ExecMkdir(m0, s, c)
          [] s.op = "save" -> ExecSave(m0, s, c)
          [] s.op = "display" ->
               IF EvalExpr(s.args[1], m0.ns).e # ""
               THEN Raise(m0, EvalExpr(s.args[1], m0.ns).e, c, s)
               ELSE m0
          [] s.op = "read_csv" -> ExecReadCsv(m0, s, c)
          [] s.op = "to_frame" -> ExecToFrame(m0, s, c)
          [] s.op = "cli" -> ExecCli(m0, s, c)
          [] OTHER -> ExecFrame(m0, s, c)

RECURSIVE RunStmtsRecovering(_, _, _, _)
\* The statements of a cell run as if each were wrapped in try/except: the
\* cell goes on after a statement that raises.  Used to test that
\* ExceptionStopsTheRun depends on an exception ending the cell.
RunStmtsRecovering(m, stmts, i, c) ==
    IF i > Len(stmts) THEN m
    ELSE RunStmtsRecovering(Exec(m, stmts[i], c), stmts, i + 1, c)

RECURSIVE RunStmts(_, _, _, _)
\* The statements of a cell from the i-th on: a raised exception ends the cell.
RunStmts(m, stmts, i, c) ==
    IF i > Len(stmts) \/ m.err.type # "" THEN m
    ELSE RunStmts(Exec(m, stmts[i], c), stmts, i + 1, c)

\* ------------------------------------------------------- the files at start

\* the feature ids of the enumerated tables and trees
Features == {"f1", "f2"}

\* sample ids, measurement times and exported log-ratios, by sample
SampleNames == <<"sample1", "sample2", "sample3", "sample4", "sample5">>

Times == <<"25", "6", "12", "18", "3">>

Ratios == <<"4.663439", "0.470004", "1.604457", "3.479770", "2.5">>

Subjects(n) ==
    IF n = "TEMPTED" THEN {"1.0", "2.0"} ELSE {"s1000100", "s1000200"}

Agg1Values(n) ==
    IF n = "TEMPTED" THEN {"Vaginal", "Cesarean"} ELSE {"Control", "CD"}

Agg2Values(n) == IF n = "TEMPTED" THEN {"y"} ELSE {"quiescent"}

\* the header of metadata.tsv; ratio tells whether the file also has a column
\* with the name of the log-ratio column
MetadataHeader(n, ratio) ==
    <<"#SampleID", KeyCol, AggCols(n)[1], AggCols(n)[2], StateCol(n)>>
    \o (IF ratio THEN <<RatioCol(n)>> ELSE <<>>)

\* the metadata.tsv of the recorded outputs: two samples of one subject
TypicalChoice(n) ==
    IF n = "TEMPTED" THEN <<"1.0", "Vaginal", "y">>
                     ELSE <<"s1000100", "Control", "quiescent">>

TypicalMetadata(n) ==
    [header |-> MetadataHeader(n, FALSE),
     rows   |-> [i \in 1..2 |-> <<SampleNames[i]>> \o TypicalChoice(n)
                                  \o <<Times[i]>>]]

\* every metadata.tsv of 1..MaxSamples samples whose host_subject_id and first
\* aggregated column are drawn from the values above or are missing
GroupByMetadata(n) ==
    LET choice == (Subjects(n) \cup {""}) \X (Agg1Values(n) \cup {""})
                  \X Agg2Values(n)
    IN  {[header |-> MetadataHeader(n, FALSE),
          rows   |-> [i \in 1..Len(ch) |->
                        <<SampleNames[i]>> \o ch[i] \o <<Times[i]>>]] :
         ch \in UNION {[1..k -> choice] : k \in 1..MaxSamples}}

\* every metadata.tsv of MaxSamples samples with the typical values, without
\* or with a column named like the log-ratio column (filled or missing)
MergeMetadata(n) ==
    {[header |-> MetadataHeader(n, FALSE),
      rows   |-> [i \in 1..MaxSamples |->
                    <<SampleNames[i]>> \o TypicalChoice(n) \o <<Times[i]>>]]}
    \cup
    {[header |-> MetadataHeader(n, TRUE),
      rows   |-> [i \in 1..MaxSamples |->
                    <<SampleNames[i]>> \o TypicalChoice(n) \o <<Times[i]>>
                    \o <<IF fl[i] THEN "0.5" ELSE "">>]] :
     fl \in [1..MaxSamples -> BOOLEAN]}

\* every sample_plot_data.tsv exported from Qurro with up to MaxSamples rows:
\* distinct sample ids in increasing or decreasing order, one of them possibly
\* not in metadata.tsv, each with its log-ratio or with none
PlotData(n) ==
    LET orders == {o \in UNION {[1..k -> 1..(MaxSamples + 1)] :
                                 k \in 0..MaxSamples} :
                     \/ \A i, j \in DOMAIN o : i < j => o[i] < o[j]
                     \/ \A i, j \in DOMAIN o : i < j => o[i] > o[j]}
    IN  UNION {{[header |-> <<"Sample ID", RatioCol(n), StateCol(n)>>,
                 rows   |-> [i \in 1..Len(ord) |->
                               <<SampleNames[ord[i]],
                                 IF fl[i] THEN Ratios[ord[i]] ELSE "",
                                 Times[ord[i]]>>]] :
                fl \in [DOMAIN ord -> BOOLEAN]} : ord \in orders}

TypicalPlotData(n) ==
    [header |-> <<"Sample ID", RatioCol(n), StateCol(n)>>,
     rows   |-> <<<<SampleNames[2], Ratios[2], Times[2]>>,
                  <<SampleNames[1], Ratios[1], Times[1]>>>>]

\* the files each notebook tells the reader to download
TableFile(n) == DataDir(n) \o <<"table.qza">>

TreeFile(n) ==
    DataDir(n) \o <<CASE n = "PhyloRPCA" -> "rooted-tree.qza"
                      [] n = "TEMPTED"   -> "insertion-tree.qza"
                      [] OTHER           -> "sepp-insertion-tree.qza">>

MetadataFile(n) ==
    DataDir(n) \o <<IF n = "PhyloRPCA" THEN "sample-metadata.tsv"
                                        ELSE "metadata.tsv">>

TaxonomyFile(n) == DataDir(n) \o <<"taxonomy.qza">>

RarefiedFile(n) == DataDir(n) \o <<"rarefied-table.qza">>

PlotFile(n) == ResultsDir(n) \o <<"sample_plot_data.tsv">>

Downloads(n) ==
    {TableFile(n), TreeFile(n), MetadataFile(n), TaxonomyFile(n)}
    \cup (IF n \in {"IBD", "PhyloIBD"} THEN {RarefiedFile(n)} ELSE {})

\* the directories the reader is told to make, and those the cells write to
GivenDirs(n) == {Root(n), DataDir(n)}

OutputDirs(n) ==
    IF n \in {"IBD", "PhyloIBD"} THEN {CoreMetricDir, ResultsDir(n)} ELSE {}

\* The files at the start: the downloads but those of the set gone, with a
\* table of the features tab, a tree of the tips tips and the metadata meta;
\* and the file exported from Qurro, when there is one (plot # NoTsv) and its
\* directory exists.
StartFiles(n, ds, gone, tab, tips, meta, plot) ==
    LET all == (TableFile(n)    :> File(Download, "qza", tab, {}, NoTsv))
            @@ (RarefiedFile(n) :> File(Download, "qza", tab, {}, NoTsv))
            @@ (TreeFile(n)     :> File(Download, "qza", tips, {}, NoTsv))
            @@ (TaxonomyFile(n) :> File(Download, "qza", {}, {}, NoTsv))
            @@ (MetadataFile(n) :> File(Download, "tsv", {}, {}, meta))
            @@ (PlotFile(n)     :> File(Download, "tsv", {}, {}, plot))
        keep == (Downloads(n) \ gone)
                \cup (IF plot # NoTsv /\ ResultsDir(n) \in ds
                      THEN {PlotFile(n)} ELSE {})
    IN  [p \in keep |-> all[p]]

Scenario(n, opt, gone, tab, tips, meta, plot) ==
    [dirs  |-> GivenDirs(n) \cup opt,
     files |-> StartFiles(n, GivenDirs(n) \cup opt, gone, tab, tips, meta, plot)]

\* The starts that vary what the run of the cells depends on: which output
\* directories exist, whether a download is missing, the features of the table
\* and the tips of the tree, and whether a file was exported from Qurro.
FlowScenarios(n) ==
    {Scenario(n, opt, gone, tab, tips, TypicalMetadata(n), plot) :
       opt \in SUBSET OutputDirs(n),
       gone \in {{}} \cup {{p} : p \in Downloads(n)},
       tab \in SUBSET Features \ {{}},
       tips \in SUBSET Features \ {{}},
       plot \in {NoTsv, TypicalPlotData(n)}}

\* The starts that vary the contents of metadata.tsv for the aggregation by
\* subject.
GroupByScenarios(n) ==
    IF n = "PhyloRPCA" THEN {}
    ELSE {Scenario(n, OutputDirs(n), {}, Features, Features, meta,
                   TypicalPlotData(n)) : meta \in GroupByMetadata(n)}

\* The starts that vary metadata.tsv and sample_plot_data.tsv for the merge.
MergeScenarios(n) ==
    IF n = "PhyloRPCA" THEN {}
    ELSE {Scenario(n, OutputDirs(n), {}, Features, Features, meta, plot) :
            meta \in MergeMetadata(n), plot \in PlotData(n)}

Scenarios(n) == FlowScenarios(n) \cup GroupByScenarios(n) \cup MergeScenarios(n)

\* ------------------------------------------------------------ the kernel

Machine ==
    [ns |-> ns, dirs |-> dirs, made |-> made, files |-> files,
     calls |-> calls, reads |-> reads, attrs |-> attrs, steps |-> steps,
     err |-> err, plugins |-> plugins]

\* A notebook as opened: nothing has run in this kernel; each code cell has
\* the execution_count stored in the file.
Init ==
    /\ nb \in Notebooks
    /\ \E sc \in Scenarios(nb) : dirs = sc.dirs /\ files = sc.files
    /\ pc = 1
    /\ halted = FALSE
    /\ counter = 0
    /\ execution_count = ExecutionCounts(nb)
    /\ ns = [v \in VarNames |-> Unbound]
    /\ made = {}
    /\ calls = {}
    /\ reads = {}
    /\ attrs = {}
    /\ steps = {}
    /\ err = NoError
    /\ plugins \in Installations(nb)

\* The kernel runs the next code cell: all its statements, up to the first
\* that raises.  The cell takes the next execution count.  An exception stops
\* the run of the notebook.
RunCell ==
    /\ ~halted
    /\ pc <= Len(Cells(nb))
    /\ \E m \in {RunStmts(Machine, Cells(nb)[pc], 1, pc)} :
           /\ ns' = m.ns
           /\ dirs' = m.dirs
           /\ made' = m.made
           /\ files' = m.files
           /\ calls' = m.calls
           /\ reads' = m.reads
           /\ attrs' = m.attrs
           /\ steps' = m.steps
           /\ err' = m.err
           /\ halted' = (m.err.type # "")
           /\ pc' = IF m.err.type # "" THEN pc ELSE pc + 1
    /\ counter' = counter + 1
    /\ execution_count' = [execution_count EXCEPT ![pc] = counter + 1]
    /\ UNCHANGED <<nb, plugins>>

\* The kernel is restarted after a run has ended, and the notebook is run
\* again from the top: the namespace and the counter start afresh, the files
\* stay.
RestartKernel ==
    /\ halted \/ pc > Len(Cells(nb))
    /\ pc' = 1
    /\ halted' = FALSE
    /\ counter' = 0
    /\ ns' = [v \in VarNames |-> Unbound]
    /\ err' = NoError
    /\ UNCHANGED <<nb, execution_count, dirs, made, files, calls, reads,
                   attrs, steps, plugins>>

Next == RunCell \/ RestartKernel

Spec == Init /\ [][Next]_vars


\* ------------------------------------------------------------ properties

\* the calls of action fn made so far
CallsOf(fn) == {c \in calls : c.fn = fn}

\* C1: in the phylo-CTF notebook, every call of phylogenetic_ctf_with_taxonomy
\* takes as its table the filtered_table output of filter_features, computed
\* against the tree that the call takes as its phylogeny, so every feature of
\* the table is a tip of that tree; the table as loaded from table.qza never
\* reaches the action.
FilteredTableIntoPhyloCTF ==
    \A c \in CallsOf("phylogenetic_ctf_with_taxonomy") :
        /\ c.args[1].by = "filter_features"
        /\ c.args[1].out = "filtered_table"
        /\ c.args[2].roots \subseteq c.args[1].roots
        /\ c.args[2].roots = {TreeFile(nb)}
        /\ TableFile(nb) \in c.args[1].roots
        /\ c.args[1].ids \subseteq c.args[2].ids

\* C1: the action has been called on a table.qza that has a feature the tree
\* does not have
FilteredTableWitness ==
    /\ nb = "PhyloIBD"
    /\ \E c \in CallsOf("phylogenetic_ctf_with_taxonomy") :
         /\ TableFile(nb) \in DOMAIN files
         /\ ~(files[TableFile(nb)].ids \subseteq c.args[2].ids)

\* the arguments of call c that are the rarefied table as loaded
RarefiedArgs(c) ==
    {k \in DOMAIN c.args : /\ c.args[k].by = "load"
                           /\ c.args[k].roots = {RarefiedFile(nb)}}

\* C2: every call of a gemelli action takes a table that derives from
\* table.qza (and from nothing else than table.qza and the tree it was
\* filtered against), and none of its arguments derives from
\* rarefied-table.qza; the rarefied table is an argument of beta_phylogenetic
\* calls only.
NeverRarefiedIntoGemelli ==
    \A c \in calls :
        /\ c.fn \in GemelliActions =>
             /\ TableFile(nb) \in c.args[1].roots
             /\ c.args[1].roots \subseteq {TableFile(nb), TreeFile(nb)}
             /\ \A k \in DOMAIN c.args : RarefiedFile(nb) \notin c.args[k].roots
        /\ RarefiedArgs(c) # {} => c.fn = "beta_phylogenetic"

\* C2: rpca and ctf have been called, and beta_phylogenetic has been called
\* on the rarefied table
NeverRarefiedWitness ==
    /\ CallsOf("rpca") # {}
    /\ CallsOf("ctf") # {}
    /\ \E c \in CallsOf("beta_phylogenetic") : RarefiedArgs(c) # {}


\* the actions whose outputs the tutorials list under "We will now cover the
\* output files"
ListedActions == {"ctf", "phylogenetic_ctf_with_taxonomy", "tempted_factorize"}

\* the Results objects of the listed actions that the namespace holds
ListedResults ==
    {v \in VarNames : ns[v].kind = "results" /\ ns[v].by \in ListedActions}

\* C3: for ctf, phylogenetic_ctf_with_taxonomy and tempted_factorize the
\* outputs of the returned Results object are exactly the outputs the tutorial
\* lists, with the same names (5, 9 and 4 of them), and every attribute a cell
\* reads from ctf_results or tempted_res is one of the listed names, so that
\* no read raises AttributeError.
DocumentedOutputsAreResultsOutputs ==
    /\ \A v \in ListedResults :
         /\ ActionOutputs(ns[v].by) = OutputList(nb)
         /\ ns[v].by = "ctf" => Len(OutputList(nb)) = 5
         /\ ns[v].by = "phylogenetic_ctf_with_taxonomy" =>
              Len(OutputList(nb)) = 9
         /\ ns[v].by = "tempted_factorize" => Len(OutputList(nb)) = 4
         /\ ~HasDuplicates(OutputList(nb))
    /\ \A a \in attrs :
         a.var \in {"ctf_results", "tempted_res"} =>
           /\ a.by \in ListedActions
           /\ a.attr \in Range(OutputList(nb))
    /\ err.type # "AttributeError"

\* C3: the cells of the phylo-CTF notebook have read counts_by_node_tree,
\* subject_table, counts_by_node and t2t_taxonomy from ctf_results
DocumentedOutputsWitness ==
    /\ "ctf_results" \in ListedResults
    /\ {"counts_by_node_tree", "subject_table", "counts_by_node",
        "t2t_taxonomy", "subject_biplot"}
         \subseteq {a.attr : a \in {b \in attrs : b.var = "ctf_results"}}

\* the five artifacts the tutorial names as outputs of
\* phylogenetic-rpca-with-taxonomy
FiveArtifacts ==
    {MP("phylo-ordination.qza"), MP("phylo-distance.qza"),
     MP("phylo-tree.qza"), MP("phylo-table.qza"), MP("phylo-taxonomy.qza")}

\* the files written by the cells of the run so far or of earlier runs
WrittenBy(c) == {p \in DOMAIN files : files[p].writer.cell = c}

\* C4: in the command-line RPCA notebook, once the cell of
\* phylogenetic-rpca-with-taxonomy has run on its inputs it has written
\* exactly the five artifacts, and every file a later command reads is one of
\* the five, written by that earlier cell, or the downloaded
\* sample-metadata.tsv.
FiveArtifactsFeedLaterCommands ==
    nb = "PhyloRPCA" =>
      /\ Cardinality(FiveArtifacts) = 5
      /\ CallsOf("gemelli phylogenetic-rpca-with-taxonomy") # {} =>
           WrittenBy(3) = FiveArtifacts
      /\ \A r \in reads :
           r.cell > 3 =>
             \/ /\ r.path \in FiveArtifacts
                /\ r.writer.cell = 3
                /\ r.writer.cell < r.cell
                /\ CallsOf("gemelli phylogenetic-rpca-with-taxonomy") # {}
             \/ /\ r.path = MetadataFile(nb)
                /\ r.writer = Download

\* C4: the three later commands have run and read the artifacts
FiveArtifactsWitness ==
    /\ nb = "PhyloRPCA"
    /\ WrittenBy(3) = FiveArtifacts
    /\ {r.path : r \in {q \in reads : q.cell = 4}}
         = {MP("phylo-tree.qza"), MP("phylo-table.qza"),
            MP("phylo-ordination.qza"), MP("sample-metadata.tsv"),
            MP("phylo-taxonomy.qza")}
    /\ \E r \in reads : r.cell = 5 /\ r.path = MP("phylo-distance.qza")
    /\ \E r \in reads : r.cell = 6 /\ r.path = MP("phylo-table.qza")


\* C5: the execution counts recorded with the code cells of the notebook
\* increase from the first code cell to the last, as they do when each cell
\* runs only after every cell above it.
ExecutionCountsIncrease ==
    \A i, j \in DOMAIN execution_count :
        i < j => execution_count[i] < execution_count[j]

\* the steps so far that save a visualization or export a table
WritingSteps == {s \in steps : s.kind \in {"save", "export"}}

\* C6: a result is saved into core-metric-output or ctf-results only after
\* the notebook has made that directory: no save fails for want of the
\* directory, and every file a cell has written into one of the two
\* directories is in a directory that a cell has made.
SavedIntoDirsTheNotebookMade ==
    /\ ~(/\ err.type = "FileNotFoundError"
         /\ \E s \in WritingSteps : s.cell = err.cell /\ s.line = err.line)
    /\ \A p \in DOMAIN files :
         files[p].writer.cell > 0 /\ Parent(p) \in OutputDirs(nb) =>
           Parent(p) \in made


\* ---- the text files, as the reader of a .tsv sees them

SubjectFile(n) == DataDir(n) \o <<"subject-metadata.tsv">>

MergedFile(n) == ResultsDir(n) \o <<"merged_sample_plot_data.tsv">>

\* the position of column c in the rows of a .tsv (the id column is the first)
Col(tsv, c) == FirstIndex(tsv.header, c)

\* a text cell, with every spelling of a missing entry written as ""
Text(t) == IF t \in NaStrings THEN "" ELSE t

Least(P) == CHOOSE i \in P : \A k \in P : i <= k

\* the host_subject_id values that occur in metadata.tsv
SubjectIds(tsv) ==
    {tsv.rows[i][Col(tsv, KeyCol)] : i \in DOMAIN tsv.rows} \ NaStrings

\* the samples (rows) of subject id, and those of them that have an entry in
\* column c
SamplesOf(tsv, id) ==
    {i \in DOMAIN tsv.rows : tsv.rows[i][Col(tsv, KeyCol)] = id}

SamplesWith(tsv, id, c) ==
    {i \in SamplesOf(tsv, id) : tsv.rows[i][Col(tsv, c)] \notin NaStrings}

\* the entry of column c in the first sample of subject id
FirstSampleEntry(tsv, id, c) ==
    Text(tsv.rows[Least(SamplesOf(tsv, id))][Col(tsv, c)])

\* the first entry of column c among the samples of subject id, in file order
FirstPresentEntry(tsv, id, c) ==
    IF SamplesWith(tsv, id, c) = {} THEN ""
    ELSE tsv.rows[Least(SamplesWith(tsv, id, c))][Col(tsv, c)]

\* subject-metadata.tsv has the header '#SampleID' and the two aggregated
\* columns, and one row for each host_subject_id of metadata.tsv
OneRowPerSubject(meta, out) ==
    /\ out.header = <<"#SampleID">> \o AggCols(nb)
    /\ \A i \in DOMAIN out.rows : Len(out.rows[i]) = Len(out.header)
    /\ {out.rows[i][1] : i \in DOMAIN out.rows} = SubjectIds(meta)
    /\ Len(out.rows) = Cardinality(SubjectIds(meta))

IdsWithRatio(plot) ==
    {plot.rows[i][1] :
       i \in {k \in DOMAIN plot.rows :
                plot.rows[k][Col(plot, RatioCol(nb))] \notin NaStrings}}

\* the entry of column c for sample id in a .tsv, nothing when the file has no
\* row for the sample
EntryOf(tsv, id, c) ==
    LET ids == [i \in DOMAIN tsv.rows |-> tsv.rows[i][1]]
    IN  IF FirstIndex(ids, id) = 0 THEN ""
        ELSE Text(tsv.rows[FirstIndex(ids, id)][Col(tsv, c)])

\* the merged table out has one row for each sample id with a log-ratio in
\* plot; the row has the log-ratio exported for that id and the timepoint,
\* host_subject_id and group that metadata.tsv has for that id
JoinedBySampleId(meta, plot, out) ==
    /\ {out.rows[i][1] : i \in DOMAIN out.rows} = IdsWithRatio(plot)
    /\ Len(out.rows) = Cardinality(IdsWithRatio(plot))
    /\ \A i \in DOMAIN out.rows :
         /\ out.rows[i][Col(out, RatioCol(nb))]
              = EntryOf(plot, out.rows[i][1], RatioCol(nb))
         /\ \A c \in {StateCol(nb), KeyCol, GroupCol(nb)} :
              out.rows[i][Col(out, c)] = EntryOf(meta, out.rows[i][1], c)

\* C8: merged_sample_plot_data.tsv, once a cell has written it, contains
\* exactly the sample ids that have a log-ratio in sample_plot_data.tsv, each
\* row with the log-ratio exported for its sample id and with the timepoint,
\* host_subject_id and group of the same sample id.
MergedTableJoinsBySampleId ==
    MergedFile(nb) \in DOMAIN files =>
      JoinedBySampleId(files[MetadataFile(nb)].tsv, files[PlotFile(nb)].tsv,
                       files[MergedFile(nb)].tsv)

\* C8 for a metadata.tsv that has no column named like the log-ratio column
MergedTableJoinsWithoutDuplicate ==
    /\ MergedFile(nb) \in DOMAIN files
    /\ Col(files[MetadataFile(nb)].tsv, RatioCol(nb)) = 0
    => JoinedBySampleId(files[MetadataFile(nb)].tsv, files[PlotFile(nb)].tsv,
                        files[MergedFile(nb)].tsv)

\* C9: in the IBD notebooks the exported merged table has exactly the four
\* columns timepoint, host_subject_id, ibd and Current_Natural_Log_Ratio, each
\* once, whatever metadata.tsv and sample_plot_data.tsv hold.
MergedTableHasFourColumns ==
    nb \in {"IBD", "PhyloIBD"} /\ MergedFile(nb) \in DOMAIN files =>
      LET cols == Tail(files[MergedFile(nb)].tsv.header)
      IN  /\ Len(cols) = 4
          /\ ~HasDuplicates(cols)
          /\ Range(cols) = {"timepoint", "host_subject_id", "ibd",
                            "Current_Natural_Log_Ratio"}


\* the three kinds of step of the claim: loading an artifact or a metadata
\* file, calling an action of a plugin, handling a dataframe and showing it;
\* and the statements that only prepare them (imports, settings, a path bound
\* to a name)
ThreeKinds == {"load", "action", "frame", "display"}

Preparation == {"import", "configure", "assign"}

\* the other kinds of step the cells perform: saving a visualization to a
\* .qzv file, exporting a dataframe to a .tsv file, changing the directory of
\* a shell, refreshing the framework's cache
OtherKinds == {"save", "export", "shell", "framework"}

Failed(s) ==
    \/ err.type # "" /\ s.cell = err.cell /\ s.line = err.line
    \/ s.kind = "action" /\ ~\E c \in calls : c.line = s.line

\* the statements, calls, reads and files of the run so far that come after
\* line l of the notebook
StepsAfter(l) == {s \in steps : s.line > l}

EffectsAfter(l) ==
    {c.line : c \in {x \in calls : x.line > l}}
    \cup {r.line : r \in {x \in reads : x.line > l}}
    \cup {files[p].writer.line : p \in {x \in DOMAIN files :
                                          files[x].writer.line > l}}

\* the file of a recorded warning is a file of an installed library
External(file) == file[1] = "site-packages"

\* every recorded warning comes from a library file, under a cell that calls
\* a plugin action
WarningsFromLibraries ==
    \A w \in RecordedWarnings(nb) :
        /\ External(w.file)
        /\ \E k \in DOMAIN Cells(nb)[w.cell] :
               StepKind(Cells(nb)[w.cell][k]) = "action"

\* C11 (as stated): a failing load or plugin call stops execution at that
\* statement: no statement after it in document order is run, and no call,
\* read or file comes from a later line.
FailureStopsExecution ==
    \A s \in steps : Failed(s) => StepsAfter(s.line) = {} /\ EffectsAfter(s.line) = {}

\* C11 (amended): no statement catches or recovers from an exception: a
\* statement that raises (a failing load or plugin call of the Python API
\* among them) stops the run at that statement, in its cell, and no statement,
\* call, read or file comes from a later line; the run stops for no other
\* reason.  A failing command of the qiime command line raises nothing and
\* stops nothing: it writes no file, and the notebook of the command line
\* never halts.  Every warning in the recorded outputs comes from a library.
ExceptionStopsTheRun ==
    /\ err.type # "" =>
         /\ halted
         /\ pc = err.cell
         /\ \E s \in steps : s.cell = err.cell /\ s.line = err.line
         /\ StepsAfter(err.line) = {}
         /\ EffectsAfter(err.line) = {}
    /\ halted => err.type # ""
    /\ \A s \in steps :
         Failed(s) => ~\E p \in DOMAIN files : files[p].writer.line = s.line
    /\ nb = "PhyloRPCA" => err = NoError /\ ~halted
    /\ WarningsFromLibraries

\* a load or a plugin call of the Python API has failed after earlier
\* statements took effect, and the run has stopped there
ExceptionStopsTheRunWitness ==
    /\ err.type # ""
    /\ halted
    /\ \E s \in steps : /\ s.line = err.line
                        /\ s.kind \in {"load", "action"}
    /\ \E c \in calls : c.line < err.line


\* a command of the qiime command line has failed and a command below it has
\* written its visualization
LaterCommandTookEffect ==
    \E s \in steps : Failed(s) /\ EffectsAfter(s.line) # {}


\* ------------------------------------------------------- the kinds of file

\* the statements of notebook n and the statement at line l of the open one
Statements(n) == UNION {Range(Cells(n)[j]) : j \in DOMAIN Cells(n)}

StmtAt(l) == CHOOSE s \in Statements(nb) : s.line = l

\* the files a statement names: the path of a load, a read, an export or a
\* save, and the inputs and outputs of a command of the command line
PathsOf(s) ==
    (IF s.op \in {"load", "load_metadata", "read_csv", "to_csv", "save"}
     THEN {s.path} ELSE {})
    \cup Range(s.ins) \cup Range(s.outs)

\* The statement at line l may touch the file p: an artifact or visualization
\* through Artifact.load, visualization.save or the qiime command line; a .tsv
\* file through Metadata.load, read_csv, to_csv or the qiime command line.
ProperAccess(p, l) ==
    \/ /\ Extension(Name(p)) \in {"qza", "qzv"}
       /\ StmtAt(l).op \in {"load", "save", "cli"}
    \/ /\ Extension(Name(p)) = "tsv"
       /\ StmtAt(l).op \in {"load_metadata", "read_csv", "to_csv", "cli"}

FilesWritten == {p \in DOMAIN files : files[p].writer.cell > 0}

\* C12: every file a cell reads or writes is a .qza or .qzv file, read or
\* written through the framework's Python API or its command line, or a
\* tab-separated .tsv file; every file a cell writes has the contents its
\* extension says; and no statement of the notebook names a file with another
\* extension.
OnlyArtifactsAndMetadata ==
    /\ \A r \in reads : ProperAccess(r.path, r.line)
    /\ \A p \in FilesWritten :
           /\ ProperAccess(p, files[p].writer.line)
           /\ files[p].kind = Extension(Name(p))
    /\ \A s \in Statements(nb) : \A p \in PathsOf(s) :
           Extension(Name(p)) \in {"qza", "qzv", "tsv"}

\* a run has loaded an artifact and a metadata file and has written a
\* visualization and a .tsv file
OnlyArtifactsAndMetadataWitness ==
    /\ \E r \in reads : Extension(Name(r.path)) = "qza"
    /\ \E r \in reads : Extension(Name(r.path)) = "tsv"
    /\ \E p \in FilesWritten : Extension(Name(p)) = "qzv"
    /\ \E p \in FilesWritten : Extension(Name(p)) = "tsv"


\* ------------------------------------------- tempted_factorize: replicates

\* the values of the replicate-handling parameter and its default
ReplicateHandlings == {"error", "drop", "random"}

DefaultReplicateHandling == "random"

\* Every metadata.tsv of MaxSamples + 2 samples of the TEMPTED notebook, each
\* sample of one of two individuals at one of two months: tables without
\* replicates and tables with one or two groups of replicates.
ReplicateMetadata ==
    LET n == MaxSamples + 2
        choice == Subjects("TEMPTED") \X {Times[1], Times[2]}
    IN  {[header |-> MetadataHeader("TEMPTED", FALSE),
          rows   |-> [i \in 1..n |->
                        <<SampleNames[i], c[i][1], "Vaginal", "y", c[i][2]>>]] :
           c \in [1..n -> choice]}

\* the samples of a metadata table that have the same individual and the same
\* state as sample id (id among them)
SameIndividualAndState(tsv, individual_id_column, state_column, id) ==
    LET at(i, c) == tsv.rows[i][FirstIndex(tsv.header, c)]
        i0 == CHOOSE i \in DOMAIN tsv.rows : tsv.rows[i][1] = id
    IN  {tsv.rows[i][1] : i \in {k \in DOMAIN tsv.rows :
             /\ at(k, individual_id_column) = at(i0, individual_id_column)
             /\ at(k, state_column) = at(i0, state_column)}}

\* tempted_factorize with "drop" keeping one sample of each group of
\* replicates.  Used to test that ReplicateHandlingOutcomes depends on "drop"
\* discarding all replicated samples.
ReplicateOutcomesKeepOne(tsv, individual_id_column, state_column, replicate_handling) ==
    LET ids == {tsv.rows[i][1] : i \in DOMAIN tsv.rows}
        group(id) == SameIndividualAndState(tsv, individual_id_column,
                                            state_column, id)
        reps == {id \in ids : Cardinality(group(id)) >= 2}
        one  == {K \in SUBSET ids :
                   /\ ids \ reps \subseteq K
                   /\ \A id \in reps : Cardinality(K \cap group(id)) = 1}
    IN  IF reps = {} THEN {[failed |-> FALSE, samples |-> ids]}
        ELSE IF replicate_handling = "error"
        THEN {[failed |-> TRUE, samples |-> {}]}
        ELSE {[failed |-> FALSE, samples |-> K] : K \in one}

\* The outcomes of tempted_factorize as to the samples it factorizes: it fails,
\* or it goes on with a set of samples.  Replicates are samples that share
\* individual and state with another sample.  When there are some, "error"
\* fails, "drop" goes on without any replicated sample, and "random" goes on
\* with one sample, any one, of each group of replicates.
ReplicateOutcomes(tsv, individual_id_column, state_column, replicate_handling) ==
    LET ids == {tsv.rows[i][1] : i \in DOMAIN tsv.rows}
        group(id) == SameIndividualAndState(tsv, individual_id_column,
                                            state_column, id)
        reps == {id \in ids : Cardinality(group(id)) >= 2}
        one  == {K \in SUBSET ids :
                   /\ ids \ reps \subseteq K
                   /\ \A id \in reps : Cardinality(K \cap group(id)) = 1}
    IN  IF reps = {} THEN {[failed |-> FALSE, samples |-> ids]}
        ELSE CASE replicate_handling = "error" ->
                    {[failed |-> TRUE, samples |-> {}]}
               [] replicate_handling = "drop" ->
                    {[failed |-> FALSE, samples |-> ids \ reps]}
               [] replicate_handling = "random" ->
                    {[failed |-> FALSE, samples |-> K] : K \in one}

\* The TEMPTED notebook as opened, with a metadata.tsv of ReplicateMetadata.
TemptedInit ==
    /\ nb = "TEMPTED"
    /\ \E meta \in ReplicateMetadata :
         \E sc \in {Scenario(nb, OutputDirs(nb), {}, Features, Features, meta,
                             TypicalPlotData(nb))} :
            dirs = sc.dirs /\ files = sc.files
    /\ pc = 1
    /\ halted = FALSE
    /\ counter = 0
    /\ execution_count = ExecutionCounts(nb)
    /\ ns = [v \in VarNames |-> Unbound]
    /\ made = {}
    /\ calls = {}
    /\ reads = {}
    /\ attrs = {}
    /\ steps = {}
    /\ err = NoError
    /\ plugins = Plugins

\* tempted_factorize(table_transformed, metadata, 'host_subject_id', 'month')
\* of line 421, called on the metadata of metadata.tsv without a
\* replicate_handling ("": the default applies) or with one of its values.
\* The call is recorded with the handling given and the samples it goes on
\* with; a call that fails raises and stops the run.
Factorize ==
    /\ ~halted
    /\ calls = {}
    /\ MetadataFile(nb) \in DOMAIN files
    /\ \E given \in ReplicateHandlings \cup {""} :
         \E o \in ReplicateOutcomes(
                    files[MetadataFile(nb)].tsv, KeyCol, StateCol(nb),
                    IF given = "" THEN DefaultReplicateHandling ELSE given) :
            /\ calls' = {[cell |-> 2, line |-> 421, fn |-> "tempted_factorize",
                          replicate_handling |-> given, failed |-> o.failed,
                          samples |-> o.samples]}
            /\ err' = IF o.failed
                      THEN [type |-> "ValueError", cell |-> 2, line |-> 421]
                      ELSE err
            /\ halted' = o.failed
    /\ UNCHANGED <<nb, pc, counter, execution_count, ns, dirs, made, files,
                   reads, attrs, steps, plugins>>

TemptedSpec == TemptedInit /\ [][Factorize]_vars

\* the samples of the metadata.tsv of the TEMPTED notebook, the individual and
\* the month of a sample, and the groups of replicates: the sets of two or
\* more samples of one individual at one month
TemptedMetadata == files[MetadataFile("TEMPTED")].tsv

TemptedSampleIds ==
    {TemptedMetadata.rows[i][1] : i \in DOMAIN TemptedMetadata.rows}

ReplicateGroups ==
    {g \in {{x \in TemptedSampleIds :
               /\ EntryOf(TemptedMetadata, x, KeyCol)
                    = EntryOf(TemptedMetadata, id, KeyCol)
               /\ EntryOf(TemptedMetadata, x, "month")
                    = EntryOf(TemptedMetadata, id, "month")} :
            id \in TemptedSampleIds} : Cardinality(g) >= 2}

\* C13: when the metadata has replicates (two or more samples of the same
\* individual at the same state), a call of tempted_factorize has one of three
\* outcomes by its replicate-handling: with "error" it fails; with "drop" it
\* goes on with exactly the samples that are in no group of replicates; with
\* "random", and by default, it goes on with every sample that is in no group
\* and exactly one sample of each group.  It fails in no other case.
ReplicateHandlingOutcomes ==
    \A c \in calls :
        LET h == IF c.replicate_handling = "" THEN "random"
                 ELSE c.replicate_handling
        IN  /\ c.failed <=> (ReplicateGroups # {} /\ h = "error")
            /\ c.failed <=> (halted /\ err.type # "")
            /\ (ReplicateGroups # {} /\ h = "drop") =>
                 c.samples = TemptedSampleIds \ UNION ReplicateGroups
            /\ (ReplicateGroups # {} /\ h = "random") =>
                 /\ c.samples \subseteq TemptedSampleIds
                 /\ TemptedSampleIds \ UNION ReplicateGroups
                      \subseteq c.samples
                 /\ \A g \in ReplicateGroups :
                      Cardinality(c.samples \cap g) = 1

\* the call of line 421 as written (no replicate-handling) on a metadata.tsv
\* with a group of replicates and a sample that is no replicate: one of the
\* replicates and the other sample are kept
ReplicateHandlingWitness ==
    /\ ReplicateGroups # {}
    /\ TemptedSampleIds \ UNION ReplicateGroups # {}
    /\ \E c \in calls :
         /\ c.replicate_handling = ""
         /\ ~c.failed
         /\ \A g \in ReplicateGroups : Cardinality(c.samples \cap g) = 1

====
